---- MODULE Spec2Model ----
(***************************************************************************)
(* ListToolBar (packages/table/src/component/ListToolBar/index.tsx).       *)
(*                                                                         *)
(* The component is a function from a property bag to a React element      *)
(* tree.  The model keeps the last props, the element tree rendered from   *)
(* them, the internal selection of the (uncontrolled) tab strip, the last  *)
(* interaction and the callbacks invoked by the last step.                 *)
(***************************************************************************)
EXTENDS Integers, Sequences, FiniteSets, TLC

(***************************************************************************)
(* JavaScript values.  Every value is a record with a `kind` field.        *)
(***************************************************************************)
Undef == [kind |-> "undefined"]
Null == [kind |-> "null"]
Bool(b) == [kind |-> "boolean", b |-> b]
Str(s) == [kind |-> "string", s |-> s]
Num(n) == [kind |-> "number", n |-> n]
Fn(id) == [kind |-> "function", id |-> id]
Arr(items) == [kind |-> "array", items |-> items]
Obj(fields) == [kind |-> "object", fields |-> fields]
El(type, attrs, children) ==
  [kind |-> "element", type |-> type, attrs |-> attrs, children |-> children]

NoFields == [f \in {} |-> Undef]

\* JavaScript truthiness.
Truthy(v) ==
  CASE v.kind = "undefined" -> FALSE
    [] v.kind = "null" -> FALSE
    [] v.kind = "boolean" -> v.b
    [] v.kind = "string" -> v.s /= ""
    [] v.kind = "number" -> v.n /= 0
    [] OTHER -> TRUE

\* a && b, a || b, !a
And(a, b) == IF Truthy(a) THEN b ELSE a
Or(a, b) == IF Truthy(a) THEN a ELSE b
Not(a) == Bool(~Truthy(a))

\* Property read v.f : undefined when v has no such own property.
Get(v, f) ==
  IF v.kind = "object" /\ f \in DOMAIN v.fields THEN v.fields[f] ELSE Undef

\* Destructuring default: `name = d` applies only to undefined.
Default(v, d) == IF v.kind = "undefined" THEN d ELSE v

\* {...v} : the own enumerable properties of an object, none of a primitive.
Spread(v) == IF v.kind = "object" THEN v.fields ELSE NoFields

isValidElement(v) == v.kind = "element"

\* What React puts in the DOM for a child: nothing for null, undefined,
\* booleans and the empty string.
IsRendered(v) ==
  /\ v.kind \notin {"undefined", "null", "boolean"}
  /\ v /= Str("")

Rendered(children) == SelectSeq(children, IsRendered)

(***************************************************************************)
(* getSettingItem                                                          *)
(***************************************************************************)
\* The click handler of the span: () => { if (onClick) { onClick(key) } }
SettingClickHandler(onClick, key) ==
  [kind |-> "closure", onClick |-> onClick, key |-> key]

getSettingItem_anyOf(setting) ==
  IF isValidElement(setting) THEN setting
  ELSE IF Truthy(setting) THEN
    LET icon == Get(setting, "icon")
        tooltip == Get(setting, "tooltip")
        onClick == Get(setting, "onClick")
        key == Get(setting, "key")
    IN IF Truthy(icon) \/ Truthy(tooltip)
       THEN El("Tooltip", [title |-> tooltip],
               <<El("span", [key |-> key,
                             onClick |-> SettingClickHandler(onClick, key)],
                    <<icon>>)>>)
       ELSE icon
  ELSE Null

getSettingItem(setting) ==
  IF isValidElement(setting) THEN setting
  ELSE IF Truthy(setting) THEN
    LET icon == Get(setting, "icon")
        tooltip == Get(setting, "tooltip")
        onClick == Get(setting, "onClick")
        key == Get(setting, "key")
    IN IF Truthy(icon) /\ Truthy(tooltip)
       THEN El("Tooltip", [title |-> tooltip],
               <<El("span", [key |-> key,
                             onClick |-> SettingClickHandler(onClick, key)],
                    <<icon>>)>>)
       ELSE icon
  ELSE Null

(***************************************************************************)
(* getSearchInput                                                          *)
(***************************************************************************)
Placeholder == Str("tableForm.inputPlaceholder")

getSearchInput_dropCallback(searchObject, onSearch) ==
  IF ~Truthy(searchObject) THEN Null
  ELSE IF isValidElement(searchObject) THEN searchObject
  ELSE El("Input.Search",
          Spread(searchObject) @@
            [style |-> Num(200), placeholder |-> Placeholder],
          <<>>)

getSearchInput(searchObject, onSearch) ==
  IF ~Truthy(searchObject) THEN Null
  ELSE IF isValidElement(searchObject) THEN searchObject
  ELSE El("Input.Search",
          Spread(searchObject) @@
            [style |-> Num(200), placeholder |-> Placeholder,
             onSearch |-> onSearch],
          <<>>)

(***************************************************************************)
(* ListToolBar                                                             *)
(***************************************************************************)
Div(cls, children) == El("div", [className |-> cls], children)

filtersNode(p) ==
  IF Truthy(p.filter) THEN Div("filter", <<p.filter>>) ELSE Null

searchNode(p) == getSearchInput(p.search, p.onSearch)

hasTitle_noTip(p) == Or(Or(Or(p.menu, p.title), p.subTitle), p.tooltip)

hasTitle(p) == Or(Or(Or(Or(p.menu, p.title), p.subTitle), p.tooltip), p.tip)

multipleLine(p) == Default(p.multipleLine, Bool(FALSE))
actions(p) == Default(p.actions, Arr(<<>>))
settings(p) == Default(p.settings, Arr(<<>>))
tabs(p) == Default(p.tabs, Obj(NoFields))

SearchWrapper(p) == Div("search", <<searchNode(p)>>)

LeftArea(p) ==
  Div("left",
      << And(p.menu, El("HeaderMenu", [menu |-> p.menu], <<>>)),
         Div("title",
             <<El("LabelIconTip",
                  [tooltip |-> Or(p.tooltip, p.tip), label |-> p.title,
                   subTitle |-> p.subTitle], <<>>)>>),
         And(And(Not(hasTitle(p)), searchNode(p)), SearchWrapper(p)) >>)

SettingItems_skipSingle(p) ==
  LET s == settings(p).items
  IN And(Bool(Len(s) > 1),
         El("Space", [size |-> Num(24), align |-> "center",
                      className |-> "setting-items"],
            [i \in 1..Len(s) |->
               El("div", [key |-> Num(i - 1), className |-> "setting-item"],
                  <<getSettingItem(s[i])>>)]))

SettingItems(p) ==
  LET s == settings(p).items
  IN And(Bool(Len(s) > 0),
         El("Space", [size |-> Num(24), align |-> "center",
                      className |-> "setting-items"],
            [i \in 1..Len(s) |->
               El("div", [key |-> Num(i - 1), className |-> "setting-item"],
                  <<getSettingItem(s[i])>>)]))

RightFilter_always(p) == filtersNode(p)

RightFilter(p) == And(Not(multipleLine(p)), filtersNode(p))

RightSearch_always(p) == And(searchNode(p), SearchWrapper(p))

RightSearch(p) == And(And(hasTitle(p), searchNode(p)), SearchWrapper(p))

RightArea(p) ==
  El("Space", [className |-> "right"],
     << RightSearch(p),
        RightFilter(p),
        El("Space", [align |-> "center"], actions(p).items),
        SettingItems(p) >>)

TabsNode_noOnChange(p) ==
  LET items == Get(tabs(p), "items").items
  IN El("Tabs",
        [tabBarExtraContent |-> filtersNode(p)],
        [i \in 1..Len(items) |-> El("Tabs.TabPane", Spread(items[i]), <<>>)])

TabsNode(p) ==
  LET items == Get(tabs(p), "items").items
  IN El("Tabs",
        [onChange |-> Get(tabs(p), "onChange"),
         tabBarExtraContent |-> filtersNode(p)],
        [i \in 1..Len(items) |-> El("Tabs.TabPane", Spread(items[i]), <<>>)])

HasTabItems(p) ==
  LET items == Get(tabs(p), "items")
  IN Truthy(And(items, IF items.kind = "array" THEN Num(Len(items.items))
                       ELSE Undef))

ExtraLine_always(p) ==
  Div("extra-line",
      << IF HasTabItems(p) THEN TabsNode(p) ELSE filtersNode(p) >>)

ExtraLine(p) ==
  And(multipleLine(p),
      Div("extra-line",
          << IF HasTabItems(p) THEN TabsNode(p) ELSE filtersNode(p) >>))

ListToolBar(p) ==
  Div("toolbar",
      << Div("container", << LeftArea(p), RightArea(p) >>),
         ExtraLine(p) >>)

(***************************************************************************)
(* The rendered tree: where the pieces of the layout are.                  *)
(***************************************************************************)
ContainerOf(l) == l.children[1]
LeftOf(l) == ContainerOf(l).children[1]
RightOf(l) == ContainerOf(l).children[2]
ExtraLineOf(l) == l.children[2]

HasCls(v, cls) ==
  /\ isValidElement(v)
  /\ "className" \in DOMAIN v.attrs
  /\ v.attrs.className = cls

\* The rendered children of an area that carry a class name.
WithCls(area, cls) == SelectSeq(Rendered(area.children), LAMBDA v : HasCls(v, cls))

HasExtraLine(l) == isValidElement(ExtraLineOf(l))

\* The tab strip, when the extra line holds one.
HasTabs(l) ==
  /\ HasExtraLine(l)
  /\ isValidElement(ExtraLineOf(l).children[1])
  /\ ExtraLineOf(l).children[1].type = "Tabs"

TabsOf(l) == ExtraLineOf(l).children[1]

\* The settings group of the right area (the last child of the right area).
SettingsGroupOf(l) == RightOf(l).children[4]
HasSettingsGroup(l) == isValidElement(SettingsGroupOf(l))

\* The search wrapper, wherever it is.
SearchWrappers(l) == WithCls(LeftOf(l), "search") \o WithCls(RightOf(l), "search")

(***************************************************************************)
(* The tab strip (antd Tabs) keeps its own selection unless it is given an *)
(* activeKey: it starts on the first pane and follows the user's clicks.   *)
(***************************************************************************)
PaneKey(pane, i) ==
  IF "key" \in DOMAIN pane.attrs THEN pane.attrs.key ELSE Num(i - 1)

PaneKeys(tabsEl) ==
  [i \in 1..Len(tabsEl.children) |-> PaneKey(tabsEl.children[i], i)]

InSeq(x, s) == \E i \in 1..Len(s) : s[i] = x

IsControlled(tabsEl) ==
  /\ "activeKey" \in DOMAIN tabsEl.attrs
  /\ tabsEl.attrs.activeKey.kind /= "undefined"

ActiveTab(l, prev) ==
  IF ~HasTabs(l) THEN Undef
  ELSE IF IsControlled(TabsOf(l)) THEN TabsOf(l).attrs.activeKey
  ELSE IF InSeq(prev, PaneKeys(TabsOf(l))) THEN prev
  ELSE PaneKeys(TabsOf(l))[1]

(***************************************************************************)
(* Inputs                                                                  *)
(***************************************************************************)
MaxSettings == 2
MaxTabs == 2

Icon == El("icon", [id |-> "icon"], <<>>)
ReadyMade(id) == El("custom", [id |-> id], <<>>)

SettingValues ==
  { Null,
    ReadyMade("setting"),
    Str("text"),
    Obj([icon |-> Icon, tooltip |-> Str("tip"), onClick |-> Fn("cbA"),
         key |-> Str("k1")]),
    Obj([icon |-> Icon, tooltip |-> Str("tip"), key |-> Str("k3")]),
    Obj([icon |-> Icon, onClick |-> Fn("cbB"), key |-> Str("k2")]),
    Obj([tooltip |-> Str("tip"), onClick |-> Fn("cbC")]) }

SeqsUpTo(S, n) == UNION {[1..k -> S] : k \in 0..n}

SettingsInputs == {Undef} \cup {Arr(s) : s \in SeqsUpTo(SettingValues, MaxSettings)}

\* A ready-made search element brings its own handler.
ReadyMadeSearch ==
  El("custom", [id |-> "search", onSearch |-> Fn("elementOnSearch")], <<>>)

SearchInputs ==
  { Undef, Bool(FALSE), Bool(TRUE),
    Obj([placeholder |-> Str("find")]),
    Obj([onSearch |-> Fn("configOnSearch")]),
    ReadyMadeSearch }

OnSearchInputs == {Undef, Fn("onSearch")}

KeyWords == {"", "abc"}

TabKeyList == <<"a", "b", "c", "d">>
TabItem(i) == Obj([key |-> Str(TabKeyList[i]), tab |-> Str(TabKeyList[i])])
TabItems(k) == Arr([i \in 1..k |-> TabItem(i)])

\* No tabs, tabs without items, and 1..MaxTabs items with and without an
\* activeKey (the last item's key) and an onChange.
TabsInputs ==
  {Undef, Obj(NoFields),
   Obj([onChange |-> Fn("tabsOnChange"), items |-> TabItems(0)])} \cup
  { Obj(a @@ c @@ [items |-> TabItems(k)]) :
      a \in {NoFields},
      c \in {NoFields, [onChange |-> Fn("tabsOnChange")]},
      k \in 1..MaxTabs } \cup
  { Obj([activeKey |-> Str(TabKeyList[k])] @@ c @@ [items |-> TabItems(k)]) :
      c \in {NoFields, [onChange |-> Fn("tabsOnChange")]},
      k \in 1..MaxTabs }

BaseProps ==
  [ title |-> Undef, subTitle |-> Undef, tip |-> Undef, tooltip |-> Undef,
    search |-> Undef, onSearch |-> Undef, actions |-> Undef,
    settings |-> Undef, multipleLine |-> Undef, filter |-> Undef,
    tabs |-> Undef, menu |-> Undef ]

\* Props that exercise the settings group.
SettingsProps ==
  { [BaseProps EXCEPT !.settings = s] : s \in SettingsInputs }

\* The title area: nothing populated, a falsy tip, each property alone, all.
TitleInputs ==
  LET Menu == Obj([type |-> Str("tab")])
      T(m, t, st, tt, tp) ==
        [menu |-> m, title |-> t, subTitle |-> st, tooltip |-> tt, tip |-> tp]
  IN { T(Undef, Undef, Undef, Undef, Undef),
       T(Undef, Undef, Undef, Undef, Str("")),
       T(Menu, Undef, Undef, Undef, Undef),
       T(Undef, Str("Title"), Undef, Undef, Undef),
       T(Undef, Undef, Str("Sub"), Undef, Undef),
       T(Undef, Undef, Undef, Str("Tooltip"), Undef),
       T(Undef, Undef, Undef, Undef, Str("Tip")),
       T(Menu, Str("Title"), Str("Sub"), Str("Tooltip"), Str("Tip")) }

\* Props that exercise the search box and the title area.
SearchProps ==
  { [BaseProps EXCEPT !.search = s, !.onSearch = o, !.menu = t.menu,
                      !.title = t.title, !.subTitle = t.subTitle,
                      !.tooltip = t.tooltip, !.tip = t.tip] :
      s \in SearchInputs, o \in OnSearchInputs, t \in TitleInputs }

MultipleLineInputs == {Undef, Bool(FALSE), Bool(TRUE)}
FilterInputs == {Undef, ReadyMade("filter")}

\* Props that exercise the extra line and the tab strip.
TabsProps ==
  { [BaseProps EXCEPT !.multipleLine = ml, !.filter = f, !.tabs = tb] :
      ml \in MultipleLineInputs, f \in FilterInputs, tb \in TabsInputs }

\* Props that exercise the filter slot next to its neighbours in the right
\* area.
FilterProps ==
  { [BaseProps EXCEPT !.multipleLine = ml, !.filter = f, !.tabs = tb,
                      !.search = st[1], !.title = st[2],
                      !.actions = as[1], !.settings = as[2]] :
      ml \in MultipleLineInputs, f \in FilterInputs,
      tb \in {Undef, Obj([items |-> TabItems(1)])},
      st \in {<<Undef, Undef>>, <<Bool(TRUE), Undef>>,
              <<Bool(TRUE), Str("Title")>>},
      as \in {<<Undef, Undef>>,
              <<Arr(<<ReadyMade("action")>>), Arr(<<Obj([icon |-> Icon])>>)>>,
              <<Arr(<<>>), Arr(<<Null>>)>>} }

PropsInputs == SettingsProps \cup SearchProps \cup TabsProps \cup FilterProps

(***************************************************************************)
(* State                                                                   *)
(***************************************************************************)
VARIABLES
  props,      \* the props of the last render
  layout,     \* the element tree the last render returned
  tabActive,  \* the pane the tab strip shows as active (Undef: no tab strip)
  event,      \* the last step: a render or a user interaction
  calls       \* the callbacks invoked during the last step, in order

vars == <<props, layout, tabActive, event, calls>>

Call(fn, arg) == [fn |-> fn, args |-> <<arg>>]

Init ==
  \E p \in PropsInputs :
    /\ props = p
    /\ layout = ListToolBar(p)
    /\ tabActive = ActiveTab(ListToolBar(p), Undef)
    /\ event = [type |-> "render"]
    /\ calls = <<>>

\* The host renders the toolbar again with new props.
Render ==
  \E p \in PropsInputs :
    /\ props' = p
    /\ layout' = ListToolBar(p)
    /\ tabActive' = ActiveTab(layout', tabActive)
    /\ event' = [type |-> "render"]
    /\ calls' = <<>>

\* What a click on the content of setting item i runs: the handler of the
\* span getSettingItem put around the icon, if it put one.
ClickCalls(item) ==
  IF isValidElement(item) /\ item.type = "Tooltip"
  THEN LET h == item.children[1].attrs.onClick
       IN IF Truthy(h.onClick) THEN <<Call(h.onClick, h.key)>> ELSE <<>>
  ELSE <<>>

\* The user clicks what setting item i shows.
ClickSetting ==
  /\ HasSettingsGroup(layout)
  /\ \E i \in 1..Len(SettingsGroupOf(layout).children) :
       LET item == SettingsGroupOf(layout).children[i].children[1]
       IN /\ IsRendered(item)
          /\ calls' = ClickCalls(item)
          /\ event' = [type |-> "click", index |-> i]
  /\ UNCHANGED <<props, layout, tabActive>>

\* What a submit of the search box runs: the onSearch of the rendered node.
SubmitCalls(node, kw) ==
  IF isValidElement(node) /\ "onSearch" \in DOMAIN node.attrs
     /\ node.attrs.onSearch.kind = "function"
  THEN <<Call(node.attrs.onSearch, Str(kw))>>
  ELSE <<>>

\* The user submits keywords in the search box.
SearchSubmit ==
  /\ Len(SearchWrappers(layout)) > 0
  /\ \E kw \in KeyWords :
       /\ calls' = SubmitCalls(SearchWrappers(layout)[1].children[1], kw)
       /\ event' = [type |-> "search", keyWords |-> kw]
  /\ UNCHANGED <<props, layout, tabActive>>

\* The user selects another tab of the tab strip.
TabChange ==
  /\ HasTabs(layout)
  /\ \E i \in 1..Len(TabsOf(layout).children) :
       LET k == PaneKeys(TabsOf(layout))[i]
           h == IF "onChange" \in DOMAIN TabsOf(layout).attrs
                THEN TabsOf(layout).attrs.onChange ELSE Undef
       IN /\ k /= tabActive
          /\ tabActive' = IF IsControlled(TabsOf(layout)) THEN tabActive ELSE k
          /\ calls' = IF h.kind = "function" THEN <<Call(h, k)>> ELSE <<>>
          /\ event' = [type |-> "tab", key |-> k]
  /\ UNCHANGED <<props, layout>>

Next == Render \/ ClickSetting \/ SearchSubmit \/ TabChange

Spec == Init /\ [][Next]_vars

(***************************************************************************)
(* Reading the rendered tree                                               *)
(***************************************************************************)
RECURSIVE SumSeq(_)
SumSeq(s) == IF s = <<>> THEN 0 ELSE Head(s) + SumSeq(Tail(s))

\* The number of elements of class cls in the whole tree under v, the extra
\* content of a tab strip included.
RECURSIVE CountCls(_, _)
CountCls(v, cls) ==
  IF ~isValidElement(v) THEN 0
  ELSE (IF HasCls(v, cls) THEN 1 ELSE 0)
       + SumSeq([i \in 1..Len(v.children) |-> CountCls(v.children[i], cls)])
       + (IF "tabBarExtraContent" \in DOMAIN v.attrs
          THEN CountCls(v.attrs.tabBarExtraContent, cls) ELSE 0)

\* The actions group: a Space without a class name.
IsActionsGroup(v) ==
  isValidElement(v) /\ v.type = "Space" /\ "className" \notin DOMAIN v.attrs

\* One of menu, title, subTitle, tooltip, tip is populated.
Populated(p) ==
  \/ Truthy(p.menu) \/ Truthy(p.title) \/ Truthy(p.subTitle)
  \/ Truthy(p.tooltip) \/ Truthy(p.tip)

IsFn(v) == v.kind = "function"

\* The entry of `settings` the last click was on.
ClickedEntry == settings(props).items[event.index]

(***************************************************************************)
(* Properties                                                              *)
(***************************************************************************)

\* C1: a click on the rendered icon of a descriptor entry that has an icon
\* and an onClick invokes that entry's onClick exactly once with the entry's
\* key, and nothing else.
C1_ClickForwarded ==
  ( /\ event.type = "click"
    /\ ClickedEntry.kind = "object"
    /\ Truthy(Get(ClickedEntry, "icon"))
    /\ IsFn(Get(ClickedEntry, "onClick")) )
  => calls = <<Call(Get(ClickedEntry, "onClick"), Get(ClickedEntry, "key"))>>

\* C2 as stated: with a truthy `search` of any form and an onSearch, a
\* submit invokes onSearch exactly once with the submitted keywords.
C2_SubmitForwarded ==
  (event.type = "search" /\ Truthy(props.search) /\ IsFn(props.onSearch))
  => calls = <<Call(props.onSearch, Str(event.keyWords))>>

\* C2 amended: a submit invokes onSearch exactly once with the keywords when
\* `search` is true or a configuration object without an onSearch of its
\* own; a configuration object's own onSearch is invoked instead of the
\* toolbar's, and a ready-made element is submitted with its own handler.
C2_SubmitForwardedAmended ==
  (event.type = "search" /\ IsFn(props.onSearch))
  => LET kw == Str(event.keyWords)
     IN /\ Truthy(props.search)
        /\ ( (~isValidElement(props.search)
              /\ "onSearch" \notin DOMAIN Spread(props.search))
             => calls = <<Call(props.onSearch, kw)>> )
        /\ ( (~isValidElement(props.search)
              /\ "onSearch" \in DOMAIN Spread(props.search))
             => calls = <<Call(Get(props.search, "onSearch"), kw)>> )
        /\ ( isValidElement(props.search)
             => \A i \in 1..Len(calls) : calls[i].fn /= props.onSearch )

C2_Witness ==
  /\ event.type = "search"
  /\ props.search = Obj([placeholder |-> Str("find")])
  /\ calls = <<Call(Fn("onSearch"), Str("abc"))>>

\* C3: a tab change happens only on a rendered tab strip (multipleLine true,
\* items non-empty), invokes tabs.onChange exactly once with the key of the
\* newly selected tab, and a render invokes no callback.
C3_TabChangeForwarded ==
  /\ event.type = "tab"
     => /\ Truthy(multipleLine(props))
        /\ Len(Get(tabs(props), "items").items) > 0
        /\ tabActive = event.key
        /\ IsFn(Get(tabs(props), "onChange"))
           => calls = <<Call(Get(tabs(props), "onChange"), tabActive)>>
  /\ event.type = "render" => calls = <<>>

C3_Witness ==
  /\ event.type = "tab"
  /\ calls = <<Call(Fn("tabsOnChange"), Str("b"))>>
  /\ tabActive = Str("b")

\* C4: the extra line exists iff multipleLine is true; without multipleLine
\* there is no tab strip, tabs.onChange is not invoked, and the layout is the
\* one rendered with `tabs` omitted.
C4_TabsNeedMultipleLine ==
  /\ HasExtraLine(layout) <=> Truthy(multipleLine(props))
  /\ ~Truthy(multipleLine(props))
     => /\ CountCls(layout, "extra-line") = 0
        /\ ~HasTabs(layout)
        /\ event.type /= "tab"
        /\ \A i \in 1..Len(calls) : calls[i].fn /= Get(tabs(props), "onChange")
        /\ layout = ListToolBar([props EXCEPT !.tabs = Undef])

C4_Witness ==
  /\ ~Truthy(multipleLine(props))
  /\ Get(tabs(props), "items") = TabItems(MaxTabs)
  /\ IsFn(Get(tabs(props), "onChange"))
  /\ Truthy(props.filter)

\* C5: no search wrapper when `search` is falsy; exactly one when it is
\* truthy: in the left area when none of menu, title, subTitle, tooltip, tip
\* is populated, first in the right area otherwise.
C5_SearchOnce ==
  LET inLeft == Len(WithCls(LeftOf(layout), "search"))
      inRight == Len(WithCls(RightOf(layout), "search"))
  IN /\ CountCls(layout, "search") = inLeft + inRight
     /\ ~Truthy(props.search) => inLeft + inRight = 0
     /\ Truthy(props.search)
        => /\ inLeft + inRight = 1
           /\ ~Populated(props) => inLeft = 1
           /\ Populated(props)
              => /\ inRight = 1
                 /\ HasCls(Rendered(RightOf(layout).children)[1], "search")

C5_Witness ==
  /\ Truthy(props.search)
  /\ Truthy(props.tip)
  /\ ~Truthy(props.title)
  /\ Len(WithCls(RightOf(layout), "search")) = 1

\* C6: the filter wrapper is rendered once when `filter` is non-empty and not
\* at all otherwise: in the right area after the search box and before the
\* actions without multipleLine, as the tab strip's extra content with
\* multipleLine and tab items, as the content of the extra line with
\* multipleLine and no tab items.
C6_FilterOnce ==
  LET right == Rendered(RightOf(layout).children)
      inRight == Len(WithCls(RightOf(layout), "filter"))
      items == Get(tabs(props), "items")
      hasItems == items.kind = "array" /\ Len(items.items) > 0
  IN /\ ~Truthy(props.filter) => CountCls(layout, "filter") = 0
     /\ Truthy(props.filter)
        => /\ CountCls(layout, "filter") = 1
           /\ ~Truthy(multipleLine(props))
              => \E i \in 1..Len(right) :
                   /\ HasCls(right[i], "filter")
                   /\ \A j \in 1..(i - 1) : HasCls(right[j], "search")
                   /\ i < Len(right) /\ IsActionsGroup(right[i + 1])
           /\ (Truthy(multipleLine(props)) /\ hasItems)
              => /\ HasTabs(layout)
                 /\ HasCls(TabsOf(layout).attrs.tabBarExtraContent, "filter")
           /\ (Truthy(multipleLine(props)) /\ ~hasItems)
              => /\ HasExtraLine(layout)
                 /\ HasCls(ExtraLineOf(layout).children[1], "filter")

C6_Witness ==
  /\ Truthy(props.filter)
  /\ HasTabs(layout)
  /\ HasCls(TabsOf(layout).attrs.tabBarExtraContent, "filter")
  /\ Len(WithCls(RightOf(layout), "filter")) = 0

\* C7: when the tab strip is rendered and tabs.activeKey is the key of one
\* of tabs.items, the tab strip shows that tab as active.
C7_ActiveKeyControls ==
  ( /\ HasTabs(layout)
    /\ InSeq(Get(tabs(props), "activeKey"), PaneKeys(TabsOf(layout))) )
  => tabActive = Get(tabs(props), "activeKey")

\* C8: what each setting item holds: a ready-made element unchanged; nothing
\* (null) for a falsy value; for a descriptor with icon and tooltip the icon
\* in a clickable span inside a tooltip titled `tooltip`; for a descriptor
\* lacking icon or tooltip its bare icon value.
C8_GetSettingItem ==
  HasSettingsGroup(layout)
  => \A i \in 1..Len(SettingsGroupOf(layout).children) :
       LET s == settings(props).items[i]
           item == SettingsGroupOf(layout).children[i].children[1]
           both == Truthy(Get(s, "icon")) /\ Truthy(Get(s, "tooltip"))
       IN /\ isValidElement(s) => item = s
          /\ ~Truthy(s) => item = Null
          /\ (s.kind = "object" /\ both)
             => /\ isValidElement(item)
                /\ item.type = "Tooltip"
                /\ item.attrs.title = Get(s, "tooltip")
                /\ Len(item.children) = 1
                /\ item.children[1].type = "span"
                /\ "onClick" \in DOMAIN item.children[1].attrs
                /\ item.children[1].children = <<Get(s, "icon")>>
          /\ (s.kind = "object" /\ ~both) => item = Get(s, "icon")

C8_Witness ==
  /\ HasSettingsGroup(layout)
  /\ \E i, j \in 1..Len(SettingsGroupOf(layout).children) :
       /\ SettingsGroupOf(layout).children[i].children[1].kind = "element"
       /\ SettingsGroupOf(layout).children[i].children[1].type = "Tooltip"
       /\ Get(settings(props).items[j], "tooltip") = Str("tip")
       /\ SettingsGroupOf(layout).children[j].children[1] = Undef

\* C9: the settings group is rendered iff `settings` has an entry; it holds
\* one item wrapper per entry, in the order of the array, empty for an entry
\* that resolves to nothing; it comes right after the actions group, which is
\* rendered even when `actions` is empty.
C9_SettingsGroup ==
  LET right == Rendered(RightOf(layout).children)
      s == settings(props).items
      group == right[Len(right)]
  IN /\ Len(SelectSeq(right, IsActionsGroup)) = 1
     /\ \A i \in 1..Len(right) :
          IsActionsGroup(right[i]) => right[i].children = actions(props).items
     /\ CountCls(layout, "setting-items") = (IF Len(s) > 0 THEN 1 ELSE 0)
     /\ Len(s) = 0 => IsActionsGroup(group)
     /\ Len(s) > 0
        => /\ HasCls(group, "setting-items")
           /\ IsActionsGroup(right[Len(right) - 1])
           /\ Len(group.children) = Len(s)
           /\ \A i \in 1..Len(s) :
                /\ HasCls(group.children[i], "setting-item")
                /\ group.children[i].children = <<getSettingItem(s[i])>>
                /\ ~Truthy(s[i]) => Rendered(group.children[i].children) = <<>>

C9_Witness ==
  /\ HasSettingsGroup(layout)
  /\ actions(props).items = <<>>
  /\ Len(SettingsGroupOf(layout).children) = 1
  /\ Rendered(SettingsGroupOf(layout).children[1].children) = <<>>

====
